---- MODULE Spec2Model ----
(***************************************************************************)
(* countrywizard: the build of the geoname store (base.py: SourceDataset,  *)
(* Geonames, CountryAliases, CountryCodes, GeoNameBase.build), the lookup  *)
(* (GeoNameBase.search), the relevance comparator (relevance_choice) and   *)
(* the location normalizer (api.py).                                       *)
(*                                                                         *)
(* A Python str is a sequence of one-character strings; None is NoneStr    *)
(* for a str, "None" for a feature class and NonePop for a population.     *)
(* A record is the tuple <<country, feature_class, population>>.           *)
(***************************************************************************)
EXTENDS Integers, Sequences, FiniteSets, TLC

VARIABLES
    sources,      \* GeoNameBase.sources: [given, items]; given = FALSE is None
    db,           \* GeoNameBase.db: the shelf, a function key -> record
    fstate,       \* per source index: the state of its future in the executor
    rowIdx,       \* per source index: the row of self.data push_data is at
    namesLeft,    \* per source index: names of the current row still to push
    cur,          \* per source index: the name of the row being pushed
    pc,           \* per source index: position inside the per-name update
    mainPc,       \* position of the thread that called build()
    mainIdx,      \* index of the future whose result build() waits for
    exc,          \* index of the source whose exception build() re-raises, 0 if none
    qkind,        \* the query made of the built store: "none", "search", "normalize"
    qin,          \* the query's input string
    qbl,          \* the query's blacklist
    qtol,         \* the query's blacklist_tolerance
    qres,         \* the record the query returned (or the raised exception)
    qlooked,      \* the names the query handed to search, in order
    candidates,   \* relevance comparator: the set of candidate records of one key
    operands,     \* relevance comparator: <<record_1, record_2>> of one call
    chosen,       \* relevance comparator: <<result>> once computed
    folded,       \* relevance comparator: the results of the folds made so far
    dbOpen,       \* GeoNameBase.db: TRUE while the shelf is open
    files,        \* the rows of the file of a place table
    chunksize,    \* the chunksize option its source is made with, 0 for none
    objects,      \* the entry of Geonames._objects for the path of the file
    reads,        \* how many times the file was read
    builds        \* the builds made from the source object, in order

vars == <<sources, db, fstate, rowIdx, namesLeft, cur, pc, mainPc, mainIdx, exc,
          qkind, qin, qbl, qtol, qres, qlooked, candidates, operands, chosen, folded,
          dbOpen, files, chunksize, objects, reads, builds>>

buildVars == <<sources, db, fstate, rowIdx, namesLeft, cur, pc, mainPc, mainIdx, exc,
               dbOpen>>
dsVars == <<files, chunksize, objects, reads, builds>>
executorVars == <<sources, fstate, rowIdx, namesLeft, cur, pc, mainPc, mainIdx, exc,
                  dbOpen>>
queryVars == <<qkind, qin, qbl, qtol, qres, qlooked>>
rcVars == <<candidates, operands, chosen, folded>>

(***************************************************************************)
(* Bounds of the model.                                                    *)
(***************************************************************************)
MaxLen == 2        \* longest query string
MaxSources == 3    \* most source datasets handed to one build
MaxCands == 3      \* most candidate records folded
MaxTol == 1        \* largest blacklist_tolerance of a query
MaxChunk == 2      \* largest chunksize of a source read in chunks
MaxRefs == 2       \* most references held to one source object
MaxReads == 2      \* most reads of one file
MaxBuilds == 2     \* most builds made from the source objects

(***************************************************************************)
(* Python str.                                                             *)
(***************************************************************************)
NoneStr == <<"None">>
NonePop == -1

S(a) == <<a>>
S2(a, b) == <<a, b>>
S3(a, b, c) == <<a, b, c>>

LowerLetters == {"a", "b"}
UpperLetters == {"A", "B"}
Whitespace == {" "}

char_lower(c) == CASE c = "A" -> "a" [] c = "B" -> "b" [] OTHER -> c
char_upper(c) == CASE c = "a" -> "A" [] c = "b" -> "B" [] OTHER -> c
char_isalnum(c) == c \in LowerLetters \cup UpperLetters

str_lower(s) == [i \in 1..Len(s) |-> char_lower(s[i])]
str_upper(s) == [i \in 1..Len(s) |-> char_upper(s[i])]

\* str.isupper(): at least one cased character and no lower-case one
str_isupper(s) ==
    /\ \E i \in 1..Len(s) : s[i] \in UpperLetters
    /\ \A i \in 1..Len(s) : s[i] \notin LowerLetters

RECURSIVE str_lstrip(_)
str_lstrip(s) ==
    IF s # <<>> /\ Head(s) \in Whitespace THEN str_lstrip(Tail(s)) ELSE s

RECURSIVE str_rstrip(_)
str_rstrip(s) ==
    IF s # <<>> /\ s[Len(s)] \in Whitespace
    THEN str_rstrip(SubSeq(s, 1, Len(s) - 1)) ELSE s

str_strip(s) == str_lstrip(str_rstrip(s))

\* does s start with the string p
str_startswith(s, p) == Len(p) <= Len(s) /\ SubSeq(s, 1, Len(p)) = p

\* str.split(sep) for a non-empty sep: the pieces between the occurrences of
\* sep, scanned left to right, empty pieces kept
RECURSIVE str_split_from(_, _, _)
str_split_from(s, sep, piece) ==
    IF s = <<>> THEN <<piece>>
    ELSE IF str_startswith(s, sep)
         THEN <<piece>> \o str_split_from(SubSeq(s, Len(sep) + 1, Len(s)), sep, <<>>)
         ELSE str_split_from(Tail(s), sep, Append(piece, Head(s)))

str_split(s, sep) == str_split_from(s, sep, <<>>)

\* str.split() with no separator: the maximal runs of non-whitespace
RECURSIVE str_words_from(_, _)
str_words_from(s, word) ==
    IF s = <<>> THEN (IF word = <<>> THEN <<>> ELSE <<word>>)
    ELSE IF Head(s) \in Whitespace
         THEN (IF word = <<>> THEN <<>> ELSE <<word>>) \o str_words_from(Tail(s), <<>>)
         ELSE str_words_from(Tail(s), Append(word, Head(s)))

str_words(s) == str_words_from(s, <<>>)

\* sep.join(parts)
RECURSIVE str_join(_, _)
str_join(sep, parts) ==
    IF parts = <<>> THEN <<>>
    ELSE IF Len(parts) = 1 THEN parts[1]
    ELSE parts[1] \o sep \o str_join(sep, Tail(parts))

\* " ".join(s.strip().split()): the whitespace collapse of search and
\* _normalize_location
collapse(s) == str_join(S(" "), str_words(str_strip(s)))

(***************************************************************************)
(* FeatureClass and the relevance comparator.                              *)
(***************************************************************************)
FeatureClasses == {"C", "A", "P", "T", "R", "H", "S", "L", "V", "U"}

RELEVANCE_HIERARCHY ==
    [f \in FeatureClasses |->
        CASE f = "C" -> 0 [] f = "A" -> 1 [] f = "P" -> 1 [] f = "T" -> 2
          [] f = "R" -> 3 [] f = "H" -> 4 [] f = "S" -> 5 [] f = "L" -> 6
          [] f = "V" -> 7 [] f = "U" -> 8]

NOT_FOUND == <<NoneStr, "None", NonePop>>
MISSING == <<NoneStr, "None", NonePop>>

\* the exception a lookup hierarchy[feature_class] of an unranked class raises
KEY_ERROR == <<<<"KeyError">>, "KeyError", NonePop>>

\* key=lambda record: record[2] or 0
pop_or_0(record) == IF record[3] = NonePop THEN 0 ELSE record[3]

\* key=lambda record: hierarchy[record[1]]
rank(record) == RELEVANCE_HIERARCHY[record[2]]

\* max(a, b, key=...) gives the first operand whose key is the largest
py_max_last(ka, kb) == IF kb >= ka THEN 2 ELSE 1
py_max(ka, kb) == IF kb > ka THEN 2 ELSE 1

\* min(a, b, key=...) gives the first operand whose key is the smallest
py_min_first(ka, kb) == 1
py_min(ka, kb) == IF kb < ka THEN 2 ELSE 1

\* which operand relevance_choice returns: 1, 2, or 0 when it raises KeyError
choice_index(record_1, record_2) ==
    IF record_2 = NOT_FOUND THEN 1
    ELSE IF record_1 = NOT_FOUND THEN 2
    ELSE IF record_1[2] \notin DOMAIN RELEVANCE_HIERARCHY
            \/ record_2[2] \notin DOMAIN RELEVANCE_HIERARCHY THEN 0
    ELSE IF rank(record_1) = rank(record_2)
         THEN py_max(pop_or_0(record_1), pop_or_0(record_2))
         ELSE py_min(rank(record_1), rank(record_2))

relevance_choice(record_1, record_2) ==
    CASE choice_index(record_1, record_2) = 1 -> record_1
      [] choice_index(record_1, record_2) = 2 -> record_2
      [] OTHER -> KEY_ERROR

\* result = relevance_choice(result, found) over the records of founds, in
\* order; an exception ends the fold
RECURSIVE fold_records(_, _)
fold_records(result, founds) ==
    IF founds = <<>> \/ result = KEY_ERROR THEN result
    ELSE fold_records(relevance_choice(result, Head(founds)), Tail(founds))

(***************************************************************************)
(* Source datasets.  A dataset is the parsed table of one file: its kind,  *)
(* whether the file can be read, whether it is consumed in chunks, and its *)
(* rows.  A NaN cell is NoneStr (NonePop for a population).                *)
(***************************************************************************)
AliasRow(iso3, alias) == [iso3 |-> iso3, Alias |-> alias]
CodeRow(alpha2, alpha3) == [alpha2 |-> alpha2, alpha3 |-> alpha3]
GeoRow(name, asciiname, alternatenames, feature_class, country_code, population) ==
    [name |-> name, asciiname |-> asciiname, alternatenames |-> alternatenames,
     feature_class |-> feature_class, country_code |-> country_code,
     population |-> population]

\* countryaliases.csv: two aliases that lower-case to the same key, and a
\* row of an unrecognized territory
ALIASES ==
    [kind |-> "CountryAliases", readable |-> TRUE, iterates |-> FALSE,
     rows |-> << AliasRow(S3("A", "A", "A"), S2("A", "a")),
                 AliasRow(NoneStr, S("b")),
                 AliasRow(S3("B", "B", "B"), S2("a", "a")) >>]

\* an alias table whose second row has no alias
ALIASES_BAD ==
    [kind |-> "CountryAliases", readable |-> TRUE, iterates |-> FALSE,
     rows |-> << AliasRow(S3("B", "B", "B"), S("b")),
                 AliasRow(S3("B", "B", "B"), NoneStr) >>]

\* isocountrycodes.csv
CODES ==
    [kind |-> "CountryCodes", readable |-> TRUE, iterates |-> FALSE,
     rows |-> << CodeRow(NoneStr, S3("B", "B", "B")),
                 CodeRow(S2("A", "a"), S3("A", "A", "A")) >>]

\* cities500.csv
GEO_1 ==
    [kind |-> "Geonames", readable |-> TRUE, iterates |-> FALSE,
     rows |-> << GeoRow(S("b"), NoneStr, NoneStr, "S", S2("A", "A"), 9),
                 GeoRow(S("a"), S("a"), NoneStr, "P", S2("A", "A"), 2),
                 GeoRow(S("b"), S("b"), NoneStr, "P", NoneStr, 9) >>]

\* allcountries.csv, read in chunks
GEO_2 ==
    [kind |-> "Geonames", readable |-> TRUE, iterates |-> TRUE,
     rows |-> << GeoRow(S("A"), S("A"), S3("a", ",", " ") \o S2("a", "a"),
                        "P", S2("A", "B"), NonePop) >>]

\* a place table whose file does not exist
GEO_MISSING ==
    [kind |-> "Geonames", readable |-> FALSE, iterates |-> FALSE, rows |-> <<>>]

\* no object under a path in the registry _objects of a dataset class
NO_OBJECT ==
    [alive |-> FALSE, refs |-> 0, cached |-> "unset", exhausted |-> FALSE,
     chunk |-> <<>>]

Catalogue == <<ALIASES, ALIASES_BAD, CODES, GEO_1, GEO_2, GEO_MISSING>>

\* the datasets of Catalogue picked by the index set picks, in catalogue order
RECURSIVE pick_from(_, _)
pick_from(picks, i) ==
    IF i > Len(Catalogue) THEN <<>>
    ELSE (IF i \in picks THEN <<Catalogue[i]>> ELSE <<>>) \o pick_from(picks, i + 1)

SourceTuples ==
    { pick_from(picks, 1) :
        picks \in { p \in SUBSET (1..Len(Catalogue)) : Cardinality(p) <= MaxSources } }

\* Geonames.alter_data
geonames_keep(row) ==
    /\ row.feature_class \in {"A", "P", "R", "T"}
    /\ row.country_code # NoneStr
geonames_fillna(row) ==
    [row EXCEPT !.asciiname = IF @ = NoneStr THEN <<>> ELSE @,
                !.alternatenames = IF @ = NoneStr THEN <<>> ELSE @,
                !.population = IF @ = NonePop THEN 0 ELSE @]
geonames_alter_data(rows) ==
    LET kept == SelectSeq(rows, geonames_keep)
    IN  [i \in 1..Len(kept) |-> geonames_fillna(kept[i])]

\* CountryAliases.alter_data
aliases_keep(row) == row.iso3 # NoneStr
aliases_alter_data(rows) == SelectSeq(rows, aliases_keep)

\* CountryCodes.alter_data
codes_keep(row) == row.alpha2 # NoneStr
codes_alter_data(rows) == SelectSeq(rows, codes_keep)

\* SourceDataset.data as push_data iterates it: the altered rows (altering is
\* row by row, so the rows of the altered chunks are the altered rows)
data(src) ==
    CASE src.kind = "Geonames" -> geonames_alter_data(src.rows)
      [] src.kind = "CountryAliases" -> aliases_alter_data(src.rows)
      [] src.kind = "CountryCodes" -> codes_alter_data(src.rows)

\* names = {row.name, row.asciiname, *row.alternatenames.split(",")}, less the
\* names that filter(None, map(str.strip, map(str.lower, names))) drops
seq_range(seq) == { seq[i] : i \in 1..Len(seq) }
raw_names(row) ==
    {row.name, row.asciiname} \cup seq_range(str_split(row.alternatenames, S(",")))
name_key(name) == str_strip(str_lower(name))
geonames_names(row) ==
    { n \in raw_names(row) : n = NoneStr \/ name_key(n) # <<>> }

geonames_record(row) == <<row.country_code, row.feature_class, row.population>>
aliases_record(row) == <<row.iso3, "C", NonePop>>
codes_record(row) == <<row.alpha3, "C", NonePop>>

(***************************************************************************)
(* GeoNameBase.build: one future per source in a ThreadPoolExecutor.       *)
(* A shelf operation (name in db, db[name], db[name] = record) is one      *)
(* step; the threads' steps interleave freely.  A future is pending until  *)
(* a pool thread takes it, which the scheduler may delay for any time.     *)
(***************************************************************************)
Idx == 1..Len(sources.items)

src(i) == sources.items[i]
rows_of(i) == data(src(i))

\* a store built earlier: get_geonamebase() opens it with no sources
EXISTING == (S("b") :> <<S3("B", "B", "B"), "C", NonePop>>)

\* GeoNameBase.__init__ opens the shelf; a build with sources starts from a
\* fresh map
Init ==
    /\ sources \in {[given |-> FALSE, items |-> <<>>]}
                   \cup {[given |-> TRUE, items |-> t] : t \in SourceTuples}
    /\ db \in IF sources.items = <<>> THEN {<<>>, EXISTING} ELSE {<<>>}
    /\ fstate = [i \in Idx |-> "NONE"]
    /\ rowIdx = [i \in Idx |-> 0]
    /\ namesLeft = [i \in Idx |-> {}]
    /\ cur = [i \in Idx |-> <<>>]
    /\ pc = [i \in Idx |-> "idle"]
    /\ mainPc = "init"
    /\ mainIdx = 0
    /\ exc = 0
    /\ qkind = "none"
    /\ qin = <<>>
    /\ qbl = <<>>
    /\ qtol = 0
    /\ qres = NOT_FOUND
    /\ qlooked = <<>>
    /\ candidates = {}
    /\ operands = <<>>
    /\ chosen = <<>>
    /\ folded = <<>>
    /\ dbOpen = TRUE
    /\ files = <<>>
    /\ chunksize = 0
    /\ objects = NO_OBJECT
    /\ reads = 0
    /\ builds = <<>>

\* if not self.sources: raise ValueError
no_sources_none_only == ~sources.given
no_sources == ~sources.given \/ sources.items = <<>>

BuildNoSources ==
    /\ mainPc = "init"
    /\ no_sources
    /\ mainPc' = "value_error"
    /\ UNCHANGED <<sources, db, fstate, rowIdx, namesLeft, cur, pc, mainIdx, exc>>
    /\ UNCHANGED <<queryVars, rcVars, dsVars, dbOpen>>

\* executor.map submits one future per source, then set(it) waits for the
\* results in the order of the sources
BuildSubmit ==
    /\ mainPc = "init"
    /\ ~no_sources
    /\ fstate' = [i \in Idx |-> "PENDING"]
    /\ mainPc' = IF sources.items = <<>> THEN "exiting" ELSE "waiting"
    /\ mainIdx' = 1
    /\ UNCHANGED <<sources, db, rowIdx, namesLeft, cur, pc, exc>>
    /\ UNCHANGED <<queryVars, rcVars, dsVars, dbOpen>>

\* the names of row r of source i, for a place table
names_at(i, r) ==
    IF src(i).kind = "Geonames" /\ r <= Len(rows_of(i))
    THEN geonames_names(rows_of(i)[r]) ELSE {}

\* a pool thread takes the future and push() reads self.data: the file cannot
\* be read
PushReadFails(i) ==
    /\ fstate[i] = "PENDING"
    /\ ~src(i).readable
    /\ fstate' = [fstate EXCEPT ![i] = "FAILED"]
    /\ UNCHANGED <<sources, db, rowIdx, namesLeft, cur, pc, mainPc, mainIdx, exc>>
    /\ UNCHANGED <<queryVars, rcVars, dsVars, dbOpen>>

\* a pool thread takes the future and push() reads self.data
PushStart(i) ==
    /\ fstate[i] = "PENDING"
    /\ src(i).readable
    /\ fstate' = [fstate EXCEPT ![i] = IF rows_of(i) = <<>> THEN "DONE" ELSE "RUNNING"]
    /\ rowIdx' = [rowIdx EXCEPT ![i] = 1]
    /\ namesLeft' = [namesLeft EXCEPT ![i] = names_at(i, 1)]
    /\ pc' = [pc EXCEPT ![i] = "row"]
    /\ UNCHANGED <<sources, db, cur, mainPc, mainIdx, exc>>
    /\ UNCHANGED <<queryVars, rcVars, dsVars, dbOpen>>

\* the loop of push_data moves to the next row, or push() returns
next_row(i) ==
    /\ rowIdx' = [rowIdx EXCEPT ![i] = @ + 1]
    /\ namesLeft' = [namesLeft EXCEPT ![i] = names_at(i, rowIdx[i] + 1)]
    /\ fstate' = [fstate EXCEPT ![i] =
                    IF rowIdx[i] + 1 > Len(rows_of(i)) THEN "DONE" ELSE "RUNNING"]

\* db[key] = record
db_set(key, record) == (key :> record) @@ db

\* CountryAliases.push_data, one row: db[row.Alias.lower()] = (iso3, C, None)
AliasesPushRow(i) ==
    /\ fstate[i] = "RUNNING"
    /\ src(i).kind = "CountryAliases"
    /\ LET row == rows_of(i)[rowIdx[i]] IN
         IF row.Alias = NoneStr
         THEN /\ fstate' = [fstate EXCEPT ![i] = "FAILED"]
              /\ UNCHANGED <<db, rowIdx, namesLeft>>
         ELSE /\ db' = db_set(str_lower(row.Alias), aliases_record(row))
              /\ next_row(i)
    /\ UNCHANGED <<sources, cur, pc, mainPc, mainIdx, exc>>
    /\ UNCHANGED <<queryVars, rcVars, dsVars, dbOpen>>

\* CountryCodes.push_data, one row: db[row.alpha2.upper()] = (alpha3, C, None)
CodesPushRow(i) ==
    /\ fstate[i] = "RUNNING"
    /\ src(i).kind = "CountryCodes"
    /\ LET row == rows_of(i)[rowIdx[i]] IN
         /\ db' = db_set(str_upper(row.alpha2), codes_record(row))
         /\ next_row(i)
    /\ UNCHANGED <<sources, cur, pc, mainPc, mainIdx, exc>>
    /\ UNCHANGED <<queryVars, rcVars, dsVars, dbOpen>>

\* new_record of the row source i is at, and the key of the name it pushes
new_record(i) == geonames_record(rows_of(i)[rowIdx[i]])
cur_key(i) == name_key(cur[i])

\* the per-name update is over: the next name of the row, or the next row
name_done(i) ==
    IF namesLeft[i] = {}
    THEN next_row(i)
    ELSE UNCHANGED <<rowIdx, namesLeft, fstate>>

\* Geonames.push_data: the loop takes a name of the row (a set: any order),
\* lower-cases and strips it, and tests `name in db`
GeonamesContains(i) ==
    /\ fstate[i] = "RUNNING"
    /\ src(i).kind = "Geonames"
    /\ pc[i] = "row"
    /\ IF namesLeft[i] = {}
       THEN next_row(i) /\ UNCHANGED <<cur, pc>>
       ELSE \E n \in namesLeft[i] :
              IF n = NoneStr
              THEN /\ fstate' = [fstate EXCEPT ![i] = "FAILED"]
                   /\ UNCHANGED <<namesLeft, cur, pc, rowIdx>>
              ELSE /\ namesLeft' = [namesLeft EXCEPT ![i] = @ \ {n}]
                   /\ cur' = [cur EXCEPT ![i] = n]
                   /\ pc' = [pc EXCEPT ![i] =
                               IF name_key(n) \in DOMAIN db THEN "get" ELSE "set"]
                   /\ UNCHANGED <<fstate, rowIdx>>
    /\ UNCHANGED <<sources, db, mainPc, mainIdx, exc>>
    /\ UNCHANGED <<queryVars, rcVars, dsVars, dbOpen>>

\* old_record = db[name]; relevance_choice(old_record, new_record) is new_record
GeonamesGet(i) ==
    /\ fstate[i] = "RUNNING"
    /\ pc[i] = "get"
    /\ LET idx == choice_index(db[cur_key(i)], new_record(i)) IN
         CASE idx = 2 ->
                /\ pc' = [pc EXCEPT ![i] = "set"]
                /\ UNCHANGED <<fstate, rowIdx, namesLeft>>
           [] idx = 1 ->
                /\ pc' = [pc EXCEPT ![i] = "row"]
                /\ name_done(i)
           [] OTHER ->
                /\ fstate' = [fstate EXCEPT ![i] = "FAILED"]
                /\ UNCHANGED <<pc, rowIdx, namesLeft>>
    /\ UNCHANGED <<sources, db, cur, mainPc, mainIdx, exc>>
    /\ UNCHANGED <<queryVars, rcVars, dsVars, dbOpen>>

\* db[name] = new_record
GeonamesSet(i) ==
    /\ fstate[i] = "RUNNING"
    /\ pc[i] = "set"
    /\ db' = db_set(cur_key(i), new_record(i))
    /\ pc' = [pc EXCEPT ![i] = "row"]
    /\ name_done(i)
    /\ UNCHANGED <<sources, cur, mainPc, mainIdx, exc>>
    /\ UNCHANGED <<queryVars, rcVars, dsVars, dbOpen>>

\* set(it): the result of the future build() waits for is there
ResultOk ==
    /\ mainPc = "waiting"
    /\ fstate[mainIdx] = "DONE"
    /\ IF mainIdx = Len(sources.items)
       THEN mainPc' = "exiting" /\ UNCHANGED mainIdx
       ELSE mainIdx' = mainIdx + 1 /\ UNCHANGED mainPc
    /\ UNCHANGED <<sources, db, fstate, rowIdx, namesLeft, cur, pc, exc>>
    /\ UNCHANGED <<queryVars, rcVars, dsVars, dbOpen>>

\* set(it): the future build() waits for raised; the result iterator cancels
\* the futures it has not yielded (only a pending future can be cancelled)
ResultRaises ==
    /\ mainPc = "waiting"
    /\ fstate[mainIdx] = "FAILED"
    /\ exc' = mainIdx
    /\ fstate' = [i \in Idx |->
                    IF i > mainIdx /\ fstate[i] = "PENDING" THEN "CANCELLED" ELSE fstate[i]]
    /\ mainPc' = "exiting"
    /\ UNCHANGED <<sources, db, rowIdx, namesLeft, cur, pc, mainIdx>>
    /\ UNCHANGED <<queryVars, rcVars, dsVars, dbOpen>>

ExecutorExit_no_wait ==
    /\ mainPc = "exiting"
    /\ mainPc' = IF exc = 0 THEN "returned" ELSE "raised"
    /\ UNCHANGED <<sources, db, fstate, rowIdx, namesLeft, cur, pc, mainIdx, exc>>
    /\ UNCHANGED <<queryVars, rcVars, dsVars, dbOpen>>

\* leaving the with block: shutdown(wait=True) joins the pool threads, then
\* build() returns or the exception propagates
ExecutorExit ==
    /\ mainPc = "exiting"
    /\ \A i \in Idx : fstate[i] \notin {"PENDING", "RUNNING"}
    /\ mainPc' = IF exc = 0 THEN "returned" ELSE "raised"
    /\ UNCHANGED <<sources, db, fstate, rowIdx, namesLeft, cur, pc, mainIdx, exc>>
    /\ UNCHANGED <<queryVars, rcVars, dsVars, dbOpen>>

(***************************************************************************)
(* GeoNameBase.search over a store.                                        *)
(***************************************************************************)
\* self.db.get(key, default)
db_get(store, key, default) == IF key \in DOMAIN store THEN store[key] ELSE default

search_key(geoname) == str_join(S(" "), str_words(str_lower(str_strip(geoname))))

\* the alpha-2 code search looks up, NoneStr when there is none
search_alpha2(store, geoname) ==
    LET key == search_key(geoname)
        country == db_get(store, key, MISSING)[1]
    IN  IF country # NoneStr /\ Len(country) = 2 THEN str_upper(country)
        ELSE IF Len(key) = 2 /\ str_isupper(geoname) THEN str_upper(key)
        ELSE NoneStr

search_no_elevation(store, geoname) == db_get(store, search_key(geoname), MISSING)

search_whole_code_record(store, geoname) ==
    LET key == search_key(geoname)
        found == db_get(store, key, MISSING)
        alpha2 == search_alpha2(store, geoname)
    IN  IF alpha2 # NoneStr THEN db_get(store, alpha2, found) ELSE found

search(store, geoname) ==
    LET key == search_key(geoname)
        found == db_get(store, key, MISSING)
        alpha2 == search_alpha2(store, geoname)
        country == IF alpha2 # NoneStr
                   THEN db_get(store, alpha2, <<found[1], "None", NonePop>>)[1]
                   ELSE found[1]
    IN  <<country, found[2], found[3]>>

(***************************************************************************)
(* api.py: the location normalizer.  A blacklist is a tuple of patterns;   *)
(* a pattern is a literal string, matched as re.compile(p, re.I).match.    *)
(***************************************************************************)
CONTENT_SEPARATORS == <<S(","), S("&"), S("|"), S("/"), S2(" ", "(")>>
NONALPHA_CHARS_ALLOWED == {" ", "-", "."}

char_ok(char) == char \in NONALPHA_CHARS_ALLOWED \/ char_isalnum(char)

transform_word_keep_case(word) == str_strip(SelectSeq(word, char_ok))
transform_word_to_query(word) ==
    str_lower(str_strip(SelectSeq(word, char_ok)))

pat_match(pat, word) == str_startswith(str_lower(word), str_lower(pat))

blacklisted_never(blacklist, word) == FALSE

\* any(pat.match(word) for pat in blacklist)
blacklisted(blacklist, word) ==
    \E k \in 1..Len(blacklist) : pat_match(blacklist[k], word)

\* the loop of _normalize_location_impl over the words still to visit: gives
\* <<result, blacklist_hits>> and, third, the query words handed to search
RECURSIVE impl_loop(_, _, _, _, _, _, _)
impl_loop(store, words, blacklist, blacklist_tolerance, result, blacklist_hits, looked) ==
    IF words = <<>> \/ blacklist_hits > blacklist_tolerance \/ result = KEY_ERROR
    THEN <<result, blacklist_hits, looked>>
    ELSE LET word == str_strip(Head(words))
             hits == blacklist_hits + (IF blacklisted(blacklist, word) THEN 1 ELSE 0)
             query_word == transform_word_to_query(word)
             next == IF query_word # <<>>
                     THEN relevance_choice(result, search(store, query_word))
                     ELSE result
         IN  impl_loop(store, Tail(words), blacklist, blacklist_tolerance, next, hits,
                       IF query_word # <<>> THEN Append(looked, query_word) ELSE looked)

normalize_location_impl(store, location, blacklist, blacklist_tolerance, prev_result, sep) ==
    impl_loop(store, str_split(location, sep), blacklist, blacklist_tolerance,
              prev_result, 0, <<>>)

RECURSIVE sep_loop(_, _, _, _, _, _, _)

sep_loop_keep(store, location, blacklist, blacklist_tolerance, result, seps, looked) ==
    IF seps = <<>> THEN <<result, looked>>
    ELSE LET got == normalize_location_impl(store, location, blacklist,
                        blacklist_tolerance, result, Head(seps))
         IN  IF got[1] = KEY_ERROR THEN <<KEY_ERROR, looked \o got[3]>>
             ELSE IF got[2] > blacklist_tolerance THEN <<got[1], looked \o got[3]>>
             ELSE sep_loop(store, location, blacklist, blacklist_tolerance,
                           got[1], Tail(seps), looked \o got[3])

sep_loop_skip(store, location, blacklist, blacklist_tolerance, result, seps, looked) ==
    IF seps = <<>> THEN <<result, looked>>
    ELSE LET got == normalize_location_impl(store, location, blacklist,
                        blacklist_tolerance, result, Head(seps))
         IN  IF got[1] = KEY_ERROR THEN <<KEY_ERROR, looked \o got[3]>>
             ELSE sep_loop(store, location, blacklist, blacklist_tolerance,
                           IF got[2] > blacklist_tolerance THEN result ELSE got[1],
                           Tail(seps), looked \o got[3])

\* the loop of _normalize_location over the separators still to try: gives
\* <<result, the query words handed to search>>
sep_loop(store, location, blacklist, blacklist_tolerance, result, seps, looked) ==
    IF seps = <<>> THEN <<result, looked>>
    ELSE LET got == normalize_location_impl(store, location, blacklist,
                        blacklist_tolerance, result, Head(seps))
         IN  IF got[1] = KEY_ERROR THEN <<KEY_ERROR, looked \o got[3]>>
             ELSE IF got[2] > blacklist_tolerance THEN <<result, looked \o got[3]>>
             ELSE sep_loop(store, location, blacklist, blacklist_tolerance,
                           got[1], Tail(seps), looked \o got[3])

\* _normalize_location, with the query words it handed to search
normalize_run(store, location, blacklist, blacklist_tolerance) ==
    LET loc == str_join(S(" "), str_words(str_strip(location)))
    IN  IF loc # <<>>
        THEN sep_loop(store, loc, blacklist, blacklist_tolerance, NOT_FOUND,
                      CONTENT_SEPARATORS, <<>>)
        ELSE <<NOT_FOUND, <<>>>>

normalize(store, location, blacklist, blacklist_tolerance) ==
    normalize_run(store, location, blacklist, blacklist_tolerance)[1]

\* normalize_location: the country of the record
normalize_location(store, location, blacklist, blacklist_tolerance) ==
    normalize(store, location, blacklist, blacklist_tolerance)[1]

(***************************************************************************)
(* Queries of the store a build left behind.                               *)
(***************************************************************************)
QueryChars == {"a", "A", " ", ","}

RECURSIVE strings_upto(_)
strings_upto(n) ==
    IF n = 0 THEN {<<>>}
    ELSE LET shorter == strings_upto(n - 1)
         IN  shorter \cup { Append(s, c) : s \in shorter, c \in QueryChars }

\* the short strings, and longer locations: "a,aa", "AA, a", " a  a", "aa ",
\* "A, AAA", "a,&Aa" and "a,&|/ (a", which holds every separator
QueryInputs ==
    strings_upto(MaxLen)
        \cup { S3("a", ",", "a") \o S("a"), S3("A", "A", ",") \o S2(" ", "a"),
               S3(" ", "a", " ") \o S2(" ", "a"), S3("a", "a", " "),
               S3("A", ",", " ") \o S3("A", "A", "A"),
               S3("a", ",", "&") \o S2("A", "a"),
               S3("a", ",", "&") \o S3("|", "/", " ") \o S2("(", "a") }

Blacklists == { <<>>, <<S("a")>>, <<S2("A", "a")>> }
Tolerances == (0 - 1)..MaxTol

built == mainPc \in {"returned", "raised"}

Search ==
    /\ built
    /\ qkind = "none"
    /\ \E s \in QueryInputs :
         /\ qin' = s
         /\ qres' = search(db, s)
         /\ qlooked' = <<s>>
    /\ qkind' = "search"
    /\ UNCHANGED <<qbl, qtol>>
    /\ UNCHANGED <<buildVars, rcVars, dsVars>>

Normalize ==
    /\ built
    /\ qkind = "none"
    /\ \E s \in QueryInputs, bl \in Blacklists, tol \in Tolerances :
         LET run == normalize_run(db, s, bl, tol) IN
         /\ qin' = s
         /\ qbl' = bl
         /\ qtol' = tol
         /\ qres' = run[1]
         /\ qlooked' = run[2]
    /\ qkind' = "normalize"
    /\ UNCHANGED <<buildVars, rcVars, dsVars>>

Next ==
    \/ BuildNoSources
    \/ BuildSubmit
    \/ \E i \in Idx : PushReadFails(i)
    \/ \E i \in Idx : PushStart(i)
    \/ \E i \in Idx : AliasesPushRow(i)
    \/ \E i \in Idx : CodesPushRow(i)
    \/ \E i \in Idx : GeonamesContains(i)
    \/ \E i \in Idx : GeonamesGet(i)
    \/ \E i \in Idx : GeonamesSet(i)
    \/ ResultOk
    \/ ResultRaises
    \/ ExecutorExit
    \/ Search
    \/ Normalize

Spec == Init /\ [][Next]_vars

(***************************************************************************)
(* The relevance comparator on its own: relevance_choice applied to a pair *)
(* of records, and folded over the orderings of a set of candidates.       *)
(***************************************************************************)
RecCountries == { S2("A", "A"), S2("A", "B") }
Populations == { NonePop, 0, 1 }

AllRecords ==
    { <<c, f, p>> : c \in RecCountries, f \in FeatureClasses, p \in Populations }
        \cup {NOT_FOUND}

FoldRecords ==
    { <<c, f, p>> : c \in RecCountries, f \in {"C", "P"}, p \in Populations }
        \cup { <<S2("A", "A"), "A", 1>>, <<S2("A", "A"), "T", 0>>, NOT_FOUND }

orderings(set) ==
    { q \in [1..Cardinality(set) -> set] :
        \A i, j \in 1..Cardinality(set) : i # j => q[i] # q[j] }

InitRC ==
    /\ sources = [given |-> FALSE, items |-> <<>>]
    /\ db = <<>>
    /\ fstate = <<>>
    /\ rowIdx = <<>>
    /\ namesLeft = <<>>
    /\ cur = <<>>
    /\ pc = <<>>
    /\ mainPc = "init"
    /\ mainIdx = 0
    /\ exc = 0
    /\ qkind = "none"
    /\ qin = <<>>
    /\ qbl = <<>>
    /\ qtol = 0
    /\ qres = NOT_FOUND
    /\ qlooked = <<>>
    /\ \/ /\ operands \in AllRecords \X AllRecords
          /\ candidates = {}
       \/ /\ operands = <<>>
          /\ candidates \in { c \in SUBSET FoldRecords : Cardinality(c) <= MaxCands }
    /\ chosen = <<>>
    /\ folded = <<>>
    /\ dbOpen = TRUE
    /\ files = <<>>
    /\ chunksize = 0
    /\ objects = NO_OBJECT
    /\ reads = 0
    /\ builds = <<>>

Choose ==
    /\ operands # <<>>
    /\ chosen = <<>>
    /\ chosen' = <<relevance_choice(operands[1], operands[2])>>
    /\ UNCHANGED <<candidates, operands, folded>>
    /\ UNCHANGED <<buildVars, queryVars, dsVars>>

Fold ==
    /\ operands = <<>>
    /\ Len(folded) < 2
    /\ \E q \in orderings(candidates) :
         folded' = Append(folded, fold_records(NOT_FOUND, q))
    /\ UNCHANGED <<candidates, operands, chosen>>
    /\ UNCHANGED <<buildVars, queryVars, dsVars>>

NextRC == Choose \/ Fold

SpecRC == InitRC /\ [][NextRC]_vars

(***************************************************************************)
(* The per-key updates of a build.                                         *)
(***************************************************************************)
\* source i has tested or read the key it pushes and has not yet written it
in_update(i) == fstate[i] = "RUNNING" /\ pc[i] \in {"get", "set"}

\* what a shelf holds under a key
key_state(store, key) == IF key \in DOMAIN store THEN <<store[key]>> ELSE <<>>

\* the <<key, record>> the next shelf write of source i stores
write_of(i) ==
    CASE src(i).kind = "Geonames" -> <<cur_key(i), new_record(i)>>
      [] src(i).kind = "CountryAliases" ->
            <<str_lower(rows_of(i)[rowIdx[i]].Alias), aliases_record(rows_of(i)[rowIdx[i]])>>
      [] src(i).kind = "CountryCodes" ->
            <<str_upper(rows_of(i)[rowIdx[i]].alpha2), codes_record(rows_of(i)[rowIdx[i]])>>

\* the <<key, record>> pairs of row r of source i, for the names given
row_pairs(i, r, names) ==
    LET row == rows_of(i)[r] IN
    CASE src(i).kind = "Geonames" -> { <<name_key(n), geonames_record(row)>> : n \in names }
      [] src(i).kind = "CountryAliases" -> { <<str_lower(row.Alias), aliases_record(row)>> }
      [] src(i).kind = "CountryCodes" -> { <<str_upper(row.alpha2), codes_record(row)>> }

\* the <<key, record>> pairs whose update source i has completed
completed(i) ==
    UNION { row_pairs(i, r, names_at(i, r)) :
                r \in { q \in 1..Len(rows_of(i)) : q < rowIdx[i] } }
      \cup (IF src(i).kind = "Geonames" /\ rowIdx[i] \in 1..Len(rows_of(i))
            THEN row_pairs(i, rowIdx[i],
                     (names_at(i, rowIdx[i]) \ namesLeft[i])
                         \ (IF pc[i] \in {"get", "set"} THEN {cur[i]} ELSE {}))
            ELSE {})

completed_for(key) ==
    { p[2] : p \in { q \in UNION { completed(i) : i \in Idx } : q[1] = key } }

\* record r is strictly more relevant than record s
more_relevant(r, s) ==
    \/ rank(r) < rank(s)
    \/ rank(r) = rank(s) /\ pop_or_0(r) > pop_or_0(s)

\* push_data of one <<key, record>> pair with no other thread in between
push_pair(store, kind, pair) ==
    IF kind = "Geonames" /\ pair[1] \in DOMAIN store
                         /\ choice_index(store[pair[1]], pair[2]) # 2
    THEN store
    ELSE (pair[1] :> pair[2]) @@ store

RECURSIVE push_names(_, _, _)
push_names(store, row, names) ==
    IF names = {} THEN store
    ELSE LET n == CHOOSE x \in names : TRUE
         IN  push_names(push_pair(store, "Geonames", <<name_key(n), geonames_record(row)>>),
                        row, names \ {n})

push_row(store, kind, row) ==
    CASE kind = "Geonames" -> push_names(store, row, geonames_names(row))
      [] kind = "CountryAliases" ->
            push_pair(store, kind, <<str_lower(row.Alias), aliases_record(row)>>)
      [] kind = "CountryCodes" ->
            push_pair(store, kind, <<str_upper(row.alpha2), codes_record(row)>>)

RECURSIVE push_rows(_, _, _)
push_rows(store, kind, rows) ==
    IF rows = <<>> THEN store
    ELSE push_rows(push_row(store, kind, Head(rows)), kind, Tail(rows))

\* the map the sources leave when they are pushed one after the other
RECURSIVE push_in_turn(_, _)
push_in_turn(store, items) ==
    IF items = <<>> THEN store
    ELSE push_in_turn(push_rows(store, Head(items).kind, data(Head(items))), Tail(items))

\* C1: while a source is between its test or read of a key and its own write
\* of that key, no step of another thread changes what the shelf holds under
\* that key.
C1_AtomicPerKeyUpdate ==
    [][\A i \in Idx :
          (in_update(i) /\ pc'[i] = pc[i] /\ fstate'[i] = fstate[i])
              => key_state(db', cur_key(i)) = key_state(db, cur_key(i))]_vars

\* C2: every write of an adapter to a key already present leaves
\* relevance_choice(existing, new) under that key.
C2_WriteIsRelevanceChoice ==
    [][\A i \in Idx :
          (AliasesPushRow(i) \/ CodesPushRow(i) \/ GeonamesSet(i))
              => (write_of(i)[1] \in DOMAIN db /\ db' # db
                    => db'[write_of(i)[1]]
                         = relevance_choice(db[write_of(i)[1]], write_of(i)[2]))]_vars

\* C3: in every reachable state each key present holds one of the records
\* whose update for that key has completed, and none of those is strictly
\* more relevant (smaller rank, then greater population).
C3_StoredIsMostRelevant ==
    \A key \in DOMAIN db :
        /\ db[key] \in completed_for(key)
        /\ \A r \in completed_for(key) : ~more_relevant(r, db[key])

\* C4: a build that returned has left the map that pushing the sources one
\* after the other leaves, whatever the schedule of the threads was.
C4_ScheduleIndependent ==
    mainPc = "returned" => db = push_in_turn(<<>>, sources.items)

(***************************************************************************)
(* The relevance comparator.                                               *)
(***************************************************************************)
\* the rule relevance_choice is to follow
reference_choice(a, b) ==
    IF b = NOT_FOUND THEN a
    ELSE IF a = NOT_FOUND THEN b
    ELSE IF rank(a) < rank(b) THEN a
    ELSE IF rank(b) < rank(a) THEN b
    ELSE IF pop_or_0(b) > pop_or_0(a) THEN b
    ELSE a

\* C5: relevance_choice(a, b) is one of its operands and is the one the
\* reference rule names: a if b is NOT_FOUND, else b if a is NOT_FOUND, else
\* the smaller rank, else the greater population (None as 0), else a.
C5_RelevanceChoiceRule ==
    chosen # <<>> =>
        /\ chosen[1] \in {operands[1], operands[2]}
        /\ chosen[1] = reference_choice(operands[1], operands[2])

\* two different records of equal rank and equal population were compared
C5_Witness ==
    /\ chosen # <<>>
    /\ operands[1] # NOT_FOUND /\ operands[2] # NOT_FOUND
    /\ operands[1] # operands[2]
    /\ rank(operands[1]) = rank(operands[2])
    /\ pop_or_0(operands[1]) = pop_or_0(operands[2])
    /\ chosen[1] = operands[1]

\* two records are equally relevant
same_relevance(r, s) ==
    IF r = NOT_FOUND \/ s = NOT_FOUND THEN r = s
    ELSE rank(r) = rank(s) /\ pop_or_0(r) = pop_or_0(s)

\* no two different records of the set are equally relevant
no_ties(set) ==
    \A r, s \in set \ {NOT_FOUND} : r # s => ~same_relevance(r, s)

\* C6 as stated: two folds of the same set of candidates, in whatever two
\* orders, end with the same record.
C6_FoldAnyOrder ==
    Len(folded) = 2 => folded[1] = folded[2]

\* C6 as amended: two folds of the same set end with equally relevant
\* records (same rank, same population with None as 0), and with the same
\* record when no two different candidates are equally relevant.
C6_FoldSameRelevance ==
    Len(folded) = 2 =>
        /\ same_relevance(folded[1], folded[2])
        /\ no_ties(candidates) => folded[1] = folded[2]

\* three or more candidates, folded in two orders that end differently
C6_Witness ==
    /\ Len(folded) = 2
    /\ Cardinality(candidates) >= 3
    /\ folded[1] # folded[2]
    /\ same_relevance(folded[1], folded[2])

(***************************************************************************)
(* Failures of a build.                                                    *)
(***************************************************************************)
failed == { i \in Idx : fstate[i] = "FAILED" }

\* every key source i pushes is a key of the map
keys_in_map(i) ==
    \A r \in 1..Len(rows_of(i)) :
        \A p \in row_pairs(i, r, names_at(i, r)) : p[1] \in DOMAIN db

C8_NoSourcesValueError ==
    /\ []((~sources.given \/ Len(sources.items) = 0) =>
            /\ mainPc \in {"init", "value_error"}
            /\ \A i \in DOMAIN fstate : fstate[i] = "NONE")
    /\ [][(~sources.given \/ Len(sources.items) = 0) => db' = db]_vars

\* build was called with an empty tuple of sources and raised
C8_Witness ==
    /\ sources.given /\ sources.items = <<>>
    /\ db = EXISTING
    /\ mainPc = "value_error"

(***************************************************************************)
(* Queries.                                                                *)
(***************************************************************************)
\* the record stored under the key a name normalizes to
stored(geoname) == db_get(db, search_key(geoname), MISSING)

has_alpha2(record) == record[1] # NoneStr /\ Len(record[1]) = 2

\* C9: when the stored record has a 2-character country, search returns the
\* country stored under the upper-cased code with the feature class and the
\* population of the stored record, and the 2-character country itself when
\* the upper-cased code is no key.
C9_Alpha2Elevation ==
    (qkind = "search" /\ has_alpha2(stored(qin))) =>
        /\ qres[2] = stored(qin)[2]
        /\ qres[3] = stored(qin)[3]
        /\ qres[1] = IF str_upper(stored(qin)[1]) \in DOMAIN db
                     THEN db[str_upper(stored(qin)[1])][1]
                     ELSE stored(qin)[1]

\* a place record was elevated to the alpha-3 code of the code table
C9_Witness ==
    /\ qkind = "search"
    /\ has_alpha2(stored(qin))
    /\ str_upper(stored(qin)[1]) \in DOMAIN db
    /\ qres[1] # stored(qin)[1]
    /\ qres[2] = "P"

\* the whole location is one name: no separator splits it
single_name(location) ==
    \A k \in 1..Len(CONTENT_SEPARATORS) :
        Len(str_split(collapse(location), CONTENT_SEPARATORS[k])) = 1

\* C10 as stated: no query raises; a name with no entry gives NOT_FOUND; an
\* empty or whitespace-only location gives NOT_FOUND and nothing is looked up.
C10_TotalNotFound ==
    /\ qkind # "none" => qres # KEY_ERROR
    /\ (qkind = "search" /\ search_key(qin) \notin DOMAIN db) => qres = NOT_FOUND
    /\ (qkind = "normalize" /\ single_name(qin)
            /\ search_key(transform_word_to_query(collapse(qin))) \notin DOMAIN db)
          => qres = NOT_FOUND
    /\ (qkind = "normalize" /\ collapse(qin) = <<>>) =>
          qres = NOT_FOUND /\ qlooked = <<>>

\* C10 as amended: as stated, except that search of an upper-case
\* 2-character name with no entry, whose upper-cased form is a key, gives
\* that key's country with no feature class and no population.
C10_TotalNotFoundButCode ==
    /\ qkind # "none" => qres # KEY_ERROR
    /\ (qkind = "search" /\ search_key(qin) \notin DOMAIN db) =>
          qres = IF /\ Len(search_key(qin)) = 2
                    /\ str_isupper(qin)
                    /\ str_upper(search_key(qin)) \in DOMAIN db
                 THEN <<db[str_upper(search_key(qin))][1], "None", NonePop>>
                 ELSE NOT_FOUND
    /\ (qkind = "normalize" /\ single_name(qin)
            /\ search_key(transform_word_to_query(collapse(qin))) \notin DOMAIN db)
          => qres = NOT_FOUND
    /\ (qkind = "normalize" /\ collapse(qin) = <<>>) =>
          qres = NOT_FOUND /\ qlooked = <<>>

\* search of an upper-case code with no entry of its own gave a record
C10_Witness ==
    /\ qkind = "search"
    /\ search_key(qin) \notin DOMAIN db
    /\ qres # NOT_FOUND

(***************************************************************************)
(* Queries of a store whose build has returned, its workers having run one *)
(* after the other in the order of the sources.                            *)
(***************************************************************************)
\* push of the source raises nothing
pushes(source) ==
    /\ source.readable
    /\ \A r \in 1..Len(data(source)) :
          /\ source.kind = "CountryAliases" => data(source)[r].Alias # NoneStr
          /\ source.kind = "Geonames" => NoneStr \notin geonames_names(data(source)[r])

GoodTuples ==
    { t \in SourceTuples : t # <<>> /\ \A i \in 1..Len(t) : pushes(t[i]) }

\* the names push_data of the source may have pushed last
last_names(source) ==
    IF source.kind = "Geonames" /\ data(source) # <<>>
          /\ geonames_names(data(source)[Len(data(source))]) # {}
    THEN geonames_names(data(source)[Len(data(source))])
    ELSE {<<>>}

InitNorm ==
    /\ \E t \in GoodTuples :
          /\ sources = [given |-> TRUE, items |-> t]
          /\ db = push_in_turn(<<>>, t)
          /\ fstate = [i \in 1..Len(t) |-> "DONE"]
          /\ rowIdx = [i \in 1..Len(t) |-> Len(data(t[i])) + 1]
          /\ namesLeft = [i \in 1..Len(t) |-> {}]
          /\ cur \in { c \in [1..Len(t) -> UNION { last_names(t[i]) : i \in 1..Len(t) }] :
                          \A i \in 1..Len(t) : c[i] \in last_names(t[i]) }
          /\ pc = [i \in 1..Len(t) |-> "row"]
          /\ mainIdx = Len(t)
    /\ mainPc = "returned"
    /\ exc = 0
    /\ qkind = "none"
    /\ qin = <<>>
    /\ qbl = <<>>
    /\ qtol = 0
    /\ qres = NOT_FOUND
    /\ qlooked = <<>>
    /\ candidates = {}
    /\ operands = <<>>
    /\ chosen = <<>>
    /\ folded = <<>>
    /\ dbOpen = TRUE
    /\ files = <<>>
    /\ chunksize = 0
    /\ objects = NO_OBJECT
    /\ reads = 0
    /\ builds = <<>>

NextNorm == Search \/ Normalize

SpecNorm == InitNorm /\ [][NextNorm]_vars

(***************************************************************************)
(* The separator strategies of a normalization.                            *)
(***************************************************************************)
\* the stripped tokens the k-th strategy splits a location into
strategy_tokens(location, k) ==
    LET pieces == str_split(collapse(location), CONTENT_SEPARATORS[k])
    IN  [i \in 1..Len(pieces) |-> str_strip(pieces[i])]

\* a token matches a pattern of the blacklist
hit(blacklist, token) ==
    \E k \in 1..Len(blacklist) : pat_match(blacklist[k], token)

\* how many of the first n tokens match the blacklist
hits_upto(blacklist, tokens, n) ==
    Cardinality({ i \in 1..n : hit(blacklist, tokens[i]) })

\* how many tokens a strategy handles: up to and with the one that takes the
\* hits over the tolerance
visited(blacklist, tolerance, tokens) ==
    LET over == { n \in 0..Len(tokens) : hits_upto(blacklist, tokens, n) > tolerance }
    IN  IF over = {} THEN Len(tokens) ELSE CHOOSE n \in over : \A m \in over : n <= m

\* the strategy ends with more hits than the tolerance
aborted(blacklist, tolerance, tokens) ==
    hits_upto(blacklist, tokens, visited(blacklist, tolerance, tokens)) > tolerance

\* the non-empty query words of the first n tokens, in order
RECURSIVE query_words(_, _)
query_words(tokens, n) ==
    IF n = 0 THEN <<>>
    ELSE query_words(tokens, n - 1)
            \o (IF transform_word_to_query(tokens[n]) # <<>>
                THEN <<transform_word_to_query(tokens[n])>> ELSE <<>>)

all_words(location, k) ==
    query_words(strategy_tokens(location, k), Len(strategy_tokens(location, k)))

\* the first strategy that ends over the tolerance, one past the last if none
first_aborted(location, blacklist, tolerance) ==
    LET ab == { k \in 1..Len(CONTENT_SEPARATORS) :
                    aborted(blacklist, tolerance, strategy_tokens(location, k)) }
    IN  IF ab = {} THEN Len(CONTENT_SEPARATORS) + 1
        ELSE CHOOSE k \in ab : \A m \in ab : k <= m

\* the query words of the strategies before the k-th, in order
RECURSIVE words_before(_, _)
words_before(location, k) ==
    IF k <= 1 THEN <<>>
    ELSE words_before(location, k - 1) \o all_words(location, k - 1)

\* what search gives for each of the words
found_of(words) == [i \in 1..Len(words) |-> search(db, words[i])]

\* record r is strictly preferred to record s
outranks(r, s) == r # NOT_FOUND /\ (s = NOT_FOUND \/ more_relevant(r, s))

\* words is what the sequence looked starts with
starts_with(looked, words) ==
    Len(words) <= Len(looked) /\ SubSeq(looked, 1, Len(words)) = words

\* C11: a comma-separated location with exactly one blacklisted token: with
\* tolerance 0 Normalize returns NOT_FOUND (the comma strategy is dropped);
\* with tolerance 1 every token of the comma strategy is looked up, also the
\* ones after the hit, and none of their records is preferred to the result.
C11_ToleranceBoundary ==
    LET tokens == strategy_tokens(qin, 1) IN
    (qkind = "normalize" /\ Len(tokens) >= 2
        /\ hits_upto(qbl, tokens, Len(tokens)) = 1) =>
        /\ qtol = 0 => qres = NOT_FOUND
        /\ qtol = 1 =>
              /\ starts_with(qlooked, all_words(qin, 1))
              /\ \A i \in 1..Len(all_words(qin, 1)) :
                    ~outranks(search(db, all_words(qin, 1)[i]), qres)

\* with tolerance 1 the result is the record of a token after the hit
C11_Witness ==
    LET tokens == strategy_tokens(qin, 1) IN
    /\ qkind = "normalize" /\ qtol = 1
    /\ hits_upto(qbl, tokens, Len(tokens)) = 1
    /\ \E i, j \in 1..Len(tokens) :
          /\ i < j /\ hit(qbl, tokens[i])
          /\ search(db, transform_word_to_query(tokens[i])) = NOT_FOUND
          /\ qres = search(db, transform_word_to_query(tokens[j]))
    /\ qres # NOT_FOUND

\* every token of every strategy matches the blacklist
all_blacklisted(location, blacklist) ==
    \A k \in 1..Len(CONTENT_SEPARATORS) :
        \A i \in 1..Len(strategy_tokens(location, k)) :
            hit(blacklist, strategy_tokens(location, k)[i])

\* C12 as stated: a location whose every token under every strategy is
\* blacklisted gives NOT_FOUND, whatever the tolerance.
C12_AllBlacklisted ==
    (qkind = "normalize" /\ collapse(qin) # <<>> /\ all_blacklisted(qin, qbl)) =>
        qres = NOT_FOUND

\* C12 as amended: such a location gives NOT_FOUND when it has more
\* comma-separated tokens than the tolerance; otherwise the tokens of the
\* comma strategy are looked up and none of their records is preferred to the
\* result.
C12_AllBlacklistedOverTolerance ==
    LET n == Len(strategy_tokens(qin, 1)) IN
    (qkind = "normalize" /\ collapse(qin) # <<>> /\ all_blacklisted(qin, qbl)) =>
        /\ n > qtol => qres = NOT_FOUND
        /\ n <= qtol =>
              /\ starts_with(qlooked, all_words(qin, 1))
              /\ \A i \in 1..Len(all_words(qin, 1)) :
                    ~outranks(search(db, all_words(qin, 1)[i]), qres)

\* two blacklisted tokens with entries, tolerance 1, and NOT_FOUND
C12_Witness ==
    /\ qkind = "normalize" /\ qtol = 1
    /\ all_blacklisted(qin, qbl)
    /\ Len(strategy_tokens(qin, 1)) = 2
    /\ \A i \in 1..2 : search(db, all_words(qin, 1)[i]) # NOT_FOUND
    /\ qres = NOT_FOUND

\* the location "A, AAA" and the store of the scenario: a place "a" with the
\* alpha-2 country AA, the code AA of the country AAA, an alias, no key "aaa"
scenario_location == S3("A", ",", " ") \o S3("A", "A", "A")
scenario_store ==
    /\ S("a") \in DOMAIN db /\ db[S("a")] = <<S2("A", "A"), "P", 2>>
    /\ S2("A", "A") \in DOMAIN db
    /\ db[S2("A", "A")] = <<S3("A", "A", "A"), "C", NonePop>>
    /\ S2("a", "a") \in DOMAIN db /\ db[S2("a", "a")][2] = "C"
    /\ S3("a", "a", "a") \notin DOMAIN db

\* C13: with the store of the scenario, an empty blacklist and a tolerance
\* of 0 or more, Normalize of the scenario's location returns the alpha-3
\* country; and whenever the result is the record search gives for a word
\* whose stored country is an alpha-2 code that is a key, its country is the
\* one stored under the code, so no 2-character country that is a key of the
\* code table is ever returned.
C13_Alpha3Returned ==
    qkind = "normalize" =>
        /\ (qin = scenario_location /\ qbl = <<>> /\ qtol >= 0 /\ scenario_store)
              => qres[1] = S3("A", "A", "A")
        /\ \A i \in 1..Len(qlooked) :
              (/\ has_alpha2(stored(qlooked[i]))
               /\ str_upper(stored(qlooked[i])[1]) \in DOMAIN db
               /\ qres[2] = stored(qlooked[i])[2]
               /\ qres[3] = stored(qlooked[i])[3])
                  => qres[1] # stored(qlooked[i])[1]
        /\ (qres[1] # NoneStr /\ Len(qres[1]) = 2) =>
              str_upper(qres[1]) \notin DOMAIN db

\* the scenario was run and gave the place's record with the alpha-3 country
C13_Witness ==
    /\ qkind = "normalize" /\ qin = scenario_location /\ qbl = <<>> /\ qtol = 0
    /\ scenario_store
    /\ qres = <<S3("A", "A", "A"), "P", 2>>

\* C15: the result of Normalize is the fold, from NOT_FOUND, of what search
\* gives for the words of the strategies before the first one that ends over
\* the tolerance, in the order of the strategies; the words looked up are
\* those and the words the first such strategy handled before it stopped.
C15_StrategiesInOrder ==
    (qkind = "normalize" /\ collapse(qin) # <<>>) =>
        LET fa == first_aborted(qin, qbl, qtol)
            words == words_before(qin, fa)
        IN
        /\ qres = fold_records(NOT_FOUND, found_of(words))
        /\ qlooked = words
                        \o (IF fa <= Len(CONTENT_SEPARATORS)
                            THEN query_words(strategy_tokens(qin, fa),
                                     visited(qbl, qtol, strategy_tokens(qin, fa)))
                            ELSE <<>>)

\* the comma strategy handed a record on and a later strategy went over the
\* tolerance
C15_Witness ==
    /\ qkind = "normalize"
    /\ first_aborted(qin, qbl, qtol) \in 2..Len(CONTENT_SEPARATORS)
    /\ qres # NOT_FOUND
    /\ Len(qlooked) > Len(words_before(qin, first_aborted(qin, qbl, qtol)))

\* C16: with an empty blacklist and a tolerance of 0 or more, every non-empty
\* location is one whole token of some strategy, and its query word is among
\* the words looked up.
C16_WholeStringStrategy ==
    (qkind = "normalize" /\ collapse(qin) # <<>> /\ qbl = <<>> /\ qtol >= 0) =>
        /\ \E k \in 1..Len(CONTENT_SEPARATORS) :
              strategy_tokens(qin, k) = <<collapse(qin)>>
        /\ transform_word_to_query(collapse(qin)) # <<>> =>
              transform_word_to_query(collapse(qin)) \in seq_range(qlooked)

\* C19: when build has returned or raised, no future is pending or running
\* and the shelf is closed.
C19_JoinedAndClosed ==
    built =>
        /\ \A i \in Idx : fstate[i] \notin {"PENDING", "RUNNING"}
        /\ ~dbOpen

\* C20: what Search returns is NOT_FOUND or has a ranked feature class, and
\* relevance_choice of it and any other result of Search does not raise.
C20_SearchResultsRanked ==
    qkind = "search" =>
        /\ qres = NOT_FOUND \/ qres[2] \in DOMAIN RELEVANCE_HIERARCHY
        /\ \A s \in QueryInputs :
              /\ relevance_choice(search(db, s), qres) # KEY_ERROR
              /\ relevance_choice(qres, search(db, s)) # KEY_ERROR

(***************************************************************************)
(* SourceDataset objects: the factory constructor over the weak registry   *)
(* _objects, the lazily read and cached data, and push() of a source read  *)
(* as one batch or in chunks.  One file holds a place table; every call    *)
(* site constructs its source the same way, Geonames(path) or              *)
(* Geonames(path, chunksize=c, iterates=True).  A build is                 *)
(* GeoNameBase(filename, (source,)).build() into a fresh map.              *)
(***************************************************************************)
\* a place table with a key of two rows of different chunks
GEO_3 ==
    << GeoRow(S("a"), NoneStr, NoneStr, "P", S2("A", "A"), 1),
       GeoRow(S("b"), S("b"), NoneStr, "S", S2("A", "A"), 9),
       GeoRow(S("A"), S("a"), S2(" ", "b"), "A", S2("A", "B"), 2),
       GeoRow(S("b"), NoneStr, NoneStr, "P", S2("A", "A"), NonePop) >>

PlaceTables == { GEO_1.rows, GEO_2.rows, GEO_3 }

\* self.iterates
iterates == chunksize > 0

\* what a later push sees of the object: the cached data and the chunk
content(obj) == [cached |-> obj.cached, exhausted |-> obj.exhausted, chunk |-> obj.chunk]

InitDS ==
    /\ sources = [given |-> FALSE, items |-> <<>>]
    /\ db = <<>>
    /\ fstate = <<>>
    /\ rowIdx = <<>>
    /\ namesLeft = <<>>
    /\ cur = <<>>
    /\ pc = <<>>
    /\ mainPc = "init"
    /\ mainIdx = 0
    /\ exc = 0
    /\ qkind = "none"
    /\ qin = <<>>
    /\ qbl = <<>>
    /\ qtol = 0
    /\ qres = NOT_FOUND
    /\ qlooked = <<>>
    /\ candidates = {}
    /\ operands = <<>>
    /\ chosen = <<>>
    /\ folded = <<>>
    /\ dbOpen = TRUE
    /\ files \in PlaceTables
    /\ chunksize \in 0..MaxChunk
    /\ objects = NO_OBJECT
    /\ reads = 0
    /\ builds = <<>>

\* Geonames(path, ...) at a call site that keeps the object: __new__ returns
\* the object of _objects or makes one, and __init__ runs on it either way
Construct ==
    /\ objects.refs < MaxRefs
    /\ objects.alive \/ reads < MaxReads
    /\ objects' = IF objects.alive
                  THEN [objects EXCEPT !.refs = @ + 1, !.chunk = <<>>]
                  ELSE [NO_OBJECT EXCEPT !.alive = TRUE, !.refs = 1]
    /\ UNCHANGED <<files, chunksize, reads, builds, db>>
    /\ UNCHANGED <<executorVars, queryVars, rcVars>>

\* a call site lets go of the object
Drop ==
    /\ objects.refs > 0
    /\ objects' = [objects EXCEPT !.refs = @ - 1]
    /\ UNCHANGED <<files, chunksize, reads, builds, db>>
    /\ UNCHANGED <<executorVars, queryVars, rcVars>>

\* _objects is a WeakValueDictionary: an object nothing refers to goes, at
\* once or later
Collect ==
    /\ objects.alive
    /\ objects.refs = 0
    /\ objects' = NO_OBJECT
    /\ UNCHANGED <<files, chunksize, reads, builds, db>>
    /\ UNCHANGED <<executorVars, queryVars, rcVars>>

\* _cached_data: the first access calls self._read and caches what it gives,
\* a frame (altered) or, with a chunksize, a reader of chunks
load(st) ==
    IF st.objects.cached = "unset"
    THEN [st EXCEPT !.objects.cached = IF iterates THEN "reader" ELSE "frame",
                    !.reads = @ + 1]
    ELSE st

\* the data property read at a call site: the current chunk if there is one,
\* else _cached_data
Data ==
    /\ objects.alive
    /\ objects.refs > 0
    /\ objects.cached = "unset" => reads < MaxReads
    /\ IF iterates /\ objects.chunk # <<>>
       THEN UNCHANGED <<objects, reads>>
       ELSE LET st == load([objects |-> objects, reads |-> reads])
            IN  objects' = st.objects /\ reads' = st.reads
    /\ UNCHANGED <<files, chunksize, builds, db>>
    /\ UNCHANGED <<executorVars, queryVars, rcVars>>

chunks_of_drop_tail(rows, size) ==
    [k \in 1..(Len(rows) \div size) |-> SubSeq(rows, (k - 1) * size + 1, k * size)]

\* the chunks a reader with the given chunksize yields
RECURSIVE chunks_of(_, _)
chunks_of(rows, size) ==
    IF rows = <<>> THEN <<>>
    ELSE IF Len(rows) <= size THEN <<rows>>
    ELSE <<SubSeq(rows, 1, size)>> \o chunks_of(SubSeq(rows, size + 1, Len(rows)), size)

\* for chunk in chunks: self.data = self.alter_data(chunk); self.push_data(db)
RECURSIVE push_chunks(_, _)
push_chunks(store, chunks) ==
    IF chunks = <<>> THEN store
    ELSE push_chunks(push_rows(store, "Geonames", geonames_alter_data(Head(chunks))),
                     Tail(chunks))

\* SourceDataset.push of the object.  With iterates, chunks is self.data:
\* the chunk left by the last push if there is one (a frame, whose iteration
\* yields column labels, on which alter_data raises), else the cached
\* reader, which yields the chunks it has not yet yielded
push_object(st) ==
    IF ~iterates
    THEN [load(st) EXCEPT
            !.map = push_rows(@, "Geonames", geonames_alter_data(files))]
    ELSE IF st.objects.chunk # <<>>
    THEN [st EXCEPT !.objects.chunk = <<>>, !.raised = TRUE]
    ELSE LET todo == IF st.objects.exhausted THEN <<>>
                     ELSE chunks_of(files, chunksize)
         IN  [load(st) EXCEPT
                !.objects.exhausted = TRUE,
                !.objects.chunk =
                    IF todo = <<>> THEN <<>>
                    ELSE <<geonames_alter_data(todo[Len(todo)])>>,
                !.map = push_chunks(@, todo)]

\* GeoNameBase(filename, (source,)).build() into a fresh map, the source an
\* object a call site holds; build raises when push raised
Build ==
    /\ Len(builds) < MaxBuilds
    /\ objects.alive
    /\ objects.refs > 0
    /\ objects.cached = "unset" => reads < MaxReads
    /\ LET st == push_object([objects |-> objects, reads |-> reads,
                              map |-> <<>>, raised |-> FALSE])
       IN  /\ objects' = st.objects
           /\ reads' = st.reads
           /\ db' = st.map
           /\ builds' = Append(builds,
                  [before |-> content(objects), after |-> content(st.objects),
                   raised |-> st.raised, map |-> st.map])
    /\ UNCHANGED <<files, chunksize>>
    /\ UNCHANGED <<executorVars, queryVars, rcVars>>

NextDS == Construct \/ Drop \/ Collect \/ Data \/ Build

SpecDS == InitDS /\ [][NextDS]_vars

\* build j is made from the object as build i left it
same_objects(i, j) == i < j /\ builds[j].before = builds[i].after

\* C14: two builds in sequence from the same source object both succeed and
\* leave the same map.
C14_RebuildIdempotent ==
    \A i, j \in 1..Len(builds) :
        same_objects(i, j) =>
            /\ ~builds[i].raised /\ ~builds[j].raised
            /\ builds[i].map = builds[j].map

\* build k is the first push of the object: its reader had yielded no chunk
fresh_in(k) == ~builds[k].before.exhausted

\* C17: the first push of a source made with a chunksize leaves, in an empty
\* map, the map that pushing the same rows as one batch leaves, under every
\* key, whatever the chunksize.
C17_ChunksAsBatch ==
    \A k \in 1..Len(builds) :
        (iterates /\ fresh_in(k)) =>
            /\ ~builds[k].raised
            /\ builds[k].map = push_rows(<<>>, "Geonames", geonames_alter_data(files))

\* the table with a key of two rows of different chunks was pushed in chunks
C17_Witness ==
    /\ files = GEO_3
    /\ chunksize = 2
    /\ \E k \in 1..Len(builds) :
          /\ fresh_in(k)
          /\ builds[k].map[S("a")] = <<S2("A", "B"), "A", 2>>
          /\ builds[k].map[S("b")] = <<S2("A", "B"), "A", 2>>

\* C18: the file of a path is read at most once.
C18_ReadOnce == reads <= 1

====
